---- MODULE Spec2Model ----
(***************************************************************************)
(* PipeWeave: the service layer over the datasets / pipelines /            *)
(* training_jobs / eda_reports tables, the Celery EDA task, and the        *)
(* rule-based agent tools.                                                 *)
(***************************************************************************)
EXTENDS Integers, Sequences, FiniteSets, TLC

(***************************************************************************)
(* Bounds of the model.                                                    *)
(***************************************************************************)
MaxDatasets == 2
MaxJobs == 2
MaxReports == 1

DatasetIds == 1..MaxDatasets
JobIds == 1..MaxJobs
ReportIds == 1..MaxReports
PipelineIds == {"pipeline-1", "pipeline-2"}
SeededPipeline == "pipeline-1"
Configs == {"config-a", "config-b"}
Filenames == {"", " ", "data.csv"}
TaskTypes == {"classification", "regression", "clustering"}
CeleryStates == {"PENDING", "STARTED", "PROGRESS", "SUCCESS", "FAILURE", "RETRY", "REVOKED"}
\* What a poll of AsyncResult can show: a state, and the progress_pct of its meta.
PathParams == {"str", "malformed str"}
Polls == {<<state, 0>> : state \in CeleryStates} \cup {<<"PROGRESS", 50>>}

(***************************************************************************)
(* The status check constraints of the tables.                             *)
(***************************************************************************)
valid_dataset_status == {"uploading", "uploaded", "validating", "validated", "failed"}
valid_job_status == {"queued", "running", "completed", "failed", "cancelled"}
valid_eda_status == {"running", "completed", "failed"}

StatusConstraint(table) ==
    CASE table = "datasets" -> valid_dataset_status
      [] table = "training_jobs" -> valid_job_status
      [] table = "eda_reports" -> valid_eda_status

VARIABLES
    datasets,          \* datasets table: id -> [status]
    pipelines,         \* pipelines table: id -> [config]
    training_jobs,     \* training_jobs table: id -> row
    eda_reports,       \* eda_reports table: id -> [dataset_id, status]
    submitted,         \* Celery tasks sent with .delay(): <<task name, id>>
    revoked,           \* Celery task ids revoked
    result,            \* what the last call did: op, id, exc, ret, wrote
    config_at_create,  \* history: job id -> the pipeline's config when the job was created
    upload_completed,  \* history: datasets on which complete_upload has succeeded
    eda_tasks,         \* generate_eda_report tasks: id -> [state, retries, step, executions]
    value_counts,      \* analyze_class_imbalance: the class frequencies, in dict order
    imbalance,         \* analyze_class_imbalance: what it returned
    pipeline_config,   \* validate_preprocessing_pipeline: the target_columns of each step
    X_sample,          \* validate_preprocessing_pipeline: the columns of the sample
    validation,        \* validate_preprocessing_pipeline: what it returned
    eda_input,         \* EDAInsightAgent.analyze: the columns and the correlation matrix
    insights,          \* EDAInsightAgent.analyze: the insights it returned
    tool_input,        \* a rule-based agent tool called on its own: its arguments
    tool_output        \* that tool: what it returned

svcVars == <<datasets, pipelines, training_jobs, eda_reports, submitted, revoked,
             result, config_at_create, upload_completed>>
workerVars == <<eda_tasks>>
imbalanceVars == <<value_counts, imbalance>>
validatorVars == <<pipeline_config, X_sample, validation>>
insightVars == <<eda_input, insights>>
toolVars == <<tool_input, tool_output>>
vars == <<svcVars, workerVars, imbalanceVars, validatorVars, insightVars, toolVars>>

\* What each part of the program leaves alone: the variables of the others.
notService == <<workerVars, imbalanceVars, validatorVars, insightVars, toolVars>>
notWorker == <<svcVars, imbalanceVars, validatorVars, insightVars, toolVars>>
notImbalance == <<svcVars, workerVars, validatorVars, insightVars, toolVars>>
notValidator == <<svcVars, workerVars, imbalanceVars, insightVars, toolVars>>
notInsights == <<svcVars, workerVars, imbalanceVars, validatorVars, toolVars>>
notTools == <<svcVars, workerVars, imbalanceVars, validatorVars, insightVars>>

(***************************************************************************)
(* CRUDBase: get / create / update, with the table's status constraint     *)
(* enforced by the database on every write.                                *)
(***************************************************************************)
Found(table, id) == id \in DOMAIN table

Accepted(tableName, status) == status \in StatusConstraint(tableName)

create(table, id, row) == (id :> row) @@ table

update(table, id, field, value) ==
    IF Found(table, id) THEN [table EXCEPT ![id][field] = value] ELSE table

\* uuid4(): an id no row of the table has; ids are handed out in order.
uuid4(table, ids) == CHOOSE i \in ids \ DOMAIN table : \A k \in ids \ DOMAIN table : i <= k

\* get / create / update take the session positionally and everything else by
\* keyword (the bare * of their signatures): a call that passes more positional
\* arguments raises TypeError before the method's body runs.
accepts_call(positional_args) == positional_args <= 1

\* uuid.UUID(value): a well-formed string parses, a malformed one raises
\* ValueError, and a value that is already a UUID has no .replace() for the
\* constructor to call.
UUID(value) ==
    IF value = "str" THEN "None"
    ELSE IF value = "malformed str" THEN "ValueError"
    ELSE "AttributeError"

Result(op, id, exc, ret, wrote) ==
    [op |-> op, id |-> id, exc |-> exc, ret |-> ret, wrote |-> wrote]

(***************************************************************************)
(* DatasetValidator                                                        *)
(***************************************************************************)
validate_create_inputs(filename, file_size_bytes) ==
    IF filename = "" \/ filename = " " THEN "ValueError"
    ELSE IF file_size_bytes <= 0 THEN "ValueError"
    ELSE "None"

validate_status_transition_exists_only(table, dataset_id, expected_status) ==
    IF ~Found(table, dataset_id) THEN "ValueError" ELSE "None"

validate_status_transition(table, dataset_id, expected_status) ==
    IF ~Found(table, dataset_id) THEN "ValueError"
    ELSE IF table[dataset_id].status # expected_status THEN "ValueError"
    ELSE "None"

(***************************************************************************)
(* DatasetService                                                          *)
(***************************************************************************)
create_dataset(filename, file_size_bytes) ==
    LET exc == validate_create_inputs(filename, file_size_bytes) IN
    /\ exc = "None" => DatasetIds \ DOMAIN datasets # {}
    /\ IF exc # "None"
       THEN /\ result' = Result("create_dataset", 0, exc, "None", <<>>)
            /\ UNCHANGED datasets
       ELSE LET id == uuid4(datasets, DatasetIds) IN
            /\ datasets' = create(datasets, id, [status |-> "uploading"])
            /\ result' = Result("create_dataset", id, "None", "uploading",
                                <<(<<"datasets", "uploading">>)>>)
    /\ UNCHANGED <<pipelines, training_jobs, eda_reports, submitted, revoked,
                   config_at_create, upload_completed, notService>>

complete_upload(dataset_id) ==
    LET exc == validate_status_transition(datasets, dataset_id, "uploading") IN
    /\ IF exc # "None"
       THEN /\ result' = Result("complete_upload", dataset_id, exc, "None", <<>>)
            /\ UNCHANGED <<datasets, upload_completed>>
       ELSE /\ datasets' = update(datasets, dataset_id, "status", "uploaded")
            /\ upload_completed' = upload_completed \cup {dataset_id}
            /\ result' = Result("complete_upload", dataset_id, "None", "uploaded",
                                <<(<<"datasets", "uploaded">>)>>)
    /\ UNCHANGED <<pipelines, training_jobs, eda_reports, submitted, revoked,
                   config_at_create, notService>>

(***************************************************************************)
(* TrainingService                                                         *)
(***************************************************************************)
\* The checks create_training_job makes before it writes anything.  The two
\* lookups are pipeline_crud.get(self._db, pipeline_id) and
\* dataset_crud.get(self._db, dataset_id): two positional arguments each.
create_training_job_check(pipeline_id, dataset_id, task_type) ==
    IF task_type \notin {"classification", "regression"} THEN "ValueError"
    ELSE IF ~accepts_call(2) THEN "TypeError"
    ELSE IF ~Found(pipelines, pipeline_id) THEN "ValueError"
    ELSE IF ~Found(datasets, dataset_id) THEN "ValueError"
    ELSE IF datasets[dataset_id].status # "validated" THEN "ValueError"
    ELSE "None"

\* The pipeline_snapshot column of a new job: the pipeline's config, copied.
pipeline_snapshot(pipeline) == pipeline.config

create_training_job(pipeline_id, dataset_id, task_type) ==
    LET exc == create_training_job_check(pipeline_id, dataset_id, task_type) IN
    /\ exc = "None" => JobIds \ DOMAIN training_jobs # {}
    /\ IF exc # "None"
       THEN /\ result' = Result("create_training_job", dataset_id, exc, "None", <<>>)
            /\ UNCHANGED <<training_jobs, submitted, config_at_create>>
       ELSE LET job_id == uuid4(training_jobs, JobIds)
                row == [pipeline_id |-> pipeline_id,
                        dataset_id |-> dataset_id,
                        pipeline_snapshot |-> pipeline_snapshot(pipelines[pipeline_id]),
                        status |-> "queued",
                        progress_percentage |-> 0,
                        celery_task_id |-> 0] IN
            IF ~Accepted("training_jobs", row.status)
            THEN /\ result' = Result("create_training_job", dataset_id, "IntegrityError",
                                     "None", <<(<<"training_jobs", row.status>>)>>)
                 /\ UNCHANGED <<training_jobs, submitted, config_at_create>>
            ELSE \* the task is submitted, then its id is stored on the job
                 /\ training_jobs' = update(create(training_jobs, job_id, row),
                                            job_id, "celery_task_id", job_id)
                 /\ submitted' = submitted \cup {<<"training.train_model", job_id>>}
                 /\ config_at_create' = (job_id :> pipelines[pipeline_id].config)
                                            @@ config_at_create
                 /\ result' = Result("create_training_job", dataset_id, "None", job_id,
                                     <<(<<"training_jobs", row.status>>)>>)
    /\ UNCHANGED <<datasets, pipelines, eda_reports, revoked, upload_completed, notService>>

\* What get_training_status answers for a stored job, given the Celery state
\* AsyncResult reports for its task and the progress in the task's meta.
training_status(job, state, meta_progress) ==
    IF job.status \in {"queued", "running"} /\ state = "PROGRESS"
    THEN [status |-> "running", progress_pct |-> meta_progress, error |-> FALSE]
    ELSE IF job.status \in {"queued", "running"} /\ state = "SUCCESS"
    THEN [status |-> "completed", progress_pct |-> 100, error |-> FALSE]
    ELSE IF job.status \in {"queued", "running"} /\ state = "FAILURE"
    THEN [status |-> "failed", progress_pct |-> 0, error |-> TRUE]
    ELSE [status |-> job.status, progress_pct |-> job.progress_percentage,
          error |-> FALSE]

\* job_id is a string in UUID form; the lookup is
\* self._crud.get(self._db, UUID(job_id)).
get_training_status(job_id, state, meta_progress) ==
    /\ result' = IF UUID("str") # "None"
                 THEN Result("get_training_status", job_id, UUID("str"), "None", <<>>)
                 ELSE IF ~accepts_call(2)
                 THEN Result("get_training_status", job_id, "TypeError", "None", <<>>)
                 ELSE IF ~Found(training_jobs, job_id)
                 THEN Result("get_training_status", job_id, "None",
                             [status |-> "not_found", progress_pct |-> 0, error |-> FALSE],
                             <<>>)
                 ELSE Result("get_training_status", job_id, "None",
                             training_status(training_jobs[job_id], state, meta_progress),
                             <<>>)
    /\ UNCHANGED <<datasets, pipelines, training_jobs, eda_reports, submitted, revoked,
                   config_at_create, upload_completed, notService>>

\* A job in one of these statuses is not cancelled.
terminal(status) == status \in {"completed", "failed", "cancelled"}

\* job_id is a string in UUID form; the lookup is
\* self._crud.get(self._db, UUID(job_id)).
cancel_training_job(job_id) ==
    /\ IF UUID("str") # "None"
       THEN /\ result' = Result("cancel_training_job", job_id, UUID("str"), "None", <<>>)
            /\ UNCHANGED <<training_jobs, revoked>>
       ELSE IF ~accepts_call(2)
       THEN /\ result' = Result("cancel_training_job", job_id, "TypeError", "None", <<>>)
            /\ UNCHANGED <<training_jobs, revoked>>
       ELSE IF ~Found(training_jobs, job_id)
       THEN /\ result' = Result("cancel_training_job", job_id, "ValueError", "None", <<>>)
            /\ UNCHANGED <<training_jobs, revoked>>
       ELSE IF terminal(training_jobs[job_id].status)
       THEN /\ result' = Result("cancel_training_job", job_id, "None", "False", <<>>)
            /\ UNCHANGED <<training_jobs, revoked>>
       ELSE IF ~Accepted("training_jobs", "cancelled")
       THEN /\ revoked' = revoked \cup {training_jobs[job_id].celery_task_id}
            /\ result' = Result("cancel_training_job", job_id, "IntegrityError", "None",
                                <<(<<"training_jobs", "cancelled">>)>>)
            /\ UNCHANGED training_jobs
       ELSE /\ revoked' = revoked \cup {training_jobs[job_id].celery_task_id}
            /\ training_jobs' = update(training_jobs, job_id, "status", "cancelled")
            /\ result' = Result("cancel_training_job", job_id, "None", "True",
                                <<(<<"training_jobs", "cancelled">>)>>)
    /\ UNCHANGED <<datasets, pipelines, eda_reports, submitted, config_at_create,
                   upload_completed, notService>>

(***************************************************************************)
(* GET /training/jobs/{job_id}/metrics                                     *)
(***************************************************************************)
\* TrainingService.get_training_job(job_id): UUID(job_id) on what the caller
\* passed, then self._crud.get(self._db, <uuid>).
get_training_job(value, job_id) ==
    IF UUID(value) # "None" THEN [exc |-> UUID(value)]
    ELSE IF ~accepts_call(2) THEN [exc |-> "TypeError"]
    ELSE [exc |-> "None", found |-> Found(training_jobs, job_id)]

\* path: the job_id path parameter, a string.  The handler parses it and hands
\* the UUID object to the service; it catches ValueError only, and anything
\* else leaves the handler as a 500.
metrics_response(path, job_id) ==
    IF UUID(path) = "ValueError" THEN "404"
    ELSE LET job == get_training_job("UUID", job_id) IN
         IF job.exc = "ValueError" THEN "404"
         ELSE IF job.exc # "None" THEN "500"
         ELSE IF ~job.found THEN "404"
         ELSE IF training_jobs[job_id].status # "completed" THEN "409"
         ELSE "200"

get_training_metrics(path, job_id) ==
    /\ result' = Result("get_training_metrics", IF UUID(path) = "None" THEN job_id ELSE 0,
                        "None", metrics_response(path, job_id), <<>>)
    /\ UNCHANGED <<datasets, pipelines, training_jobs, eda_reports, submitted, revoked,
                   config_at_create, upload_completed, notService>>

(***************************************************************************)
(* EDAService                                                              *)
(***************************************************************************)
\* The lookup is self._dataset_crud.get(self._db, dataset_id).
queue_eda_check(dataset_id) ==
    IF ~accepts_call(2) THEN "TypeError"
    ELSE IF ~Found(datasets, dataset_id) THEN "ValueError"
    ELSE IF datasets[dataset_id].status # "validated" THEN "ValueError"
    ELSE "None"

\* The status queue_eda_generation gives the report row it creates.
eda_initial_status == "queued"

queue_eda_generation(dataset_id) ==
    LET exc == queue_eda_check(dataset_id) IN
    /\ exc = "None" => ReportIds \ DOMAIN eda_reports # {}
    /\ IF exc # "None"
       THEN /\ result' = Result("queue_eda_generation", dataset_id, exc, "None", <<>>)
            /\ UNCHANGED <<eda_reports, submitted>>
       ELSE LET report_id == uuid4(eda_reports, ReportIds)
                row == [dataset_id |-> dataset_id, status |-> eda_initial_status] IN
            IF ~Accepted("eda_reports", row.status)
            THEN \* the INSERT violates valid_eda_status: nothing is stored or submitted
                 /\ result' = Result("queue_eda_generation", dataset_id, "IntegrityError",
                                     "None", <<(<<"eda_reports", row.status>>)>>)
                 /\ UNCHANGED <<eda_reports, submitted>>
            ELSE /\ eda_reports' = create(eda_reports, report_id, row)
                 /\ submitted' = submitted \cup {<<"eda.generate_report", report_id>>}
                 /\ result' = Result("queue_eda_generation", dataset_id, "None", "queued",
                                     <<(<<"eda_reports", row.status>>)>>)
    /\ UNCHANGED <<datasets, pipelines, training_jobs, revoked, config_at_create,
                   upload_completed, notService>>

\* The status values the services pass to create and update, by table.
service_status_writes ==
    {<<"datasets", "uploading">>, <<"datasets", "uploaded">>,
     <<"training_jobs", "queued">>, <<"training_jobs", "cancelled">>,
     <<"eda_reports", eda_initial_status>>}

(***************************************************************************)
(* pipeline_crud.update: a new config for a stored pipeline.               *)
(***************************************************************************)
update_pipeline_and_snapshots(pipeline_id, config) ==
    /\ Found(pipelines, pipeline_id)
    /\ pipelines' = update(pipelines, pipeline_id, "config", config)
    /\ training_jobs' = [j \in DOMAIN training_jobs |->
                            IF training_jobs[j].pipeline_id = pipeline_id
                            THEN [training_jobs[j] EXCEPT !.pipeline_snapshot = config]
                            ELSE training_jobs[j]]
    /\ result' = Result("update_pipeline", 0, "None", "None", <<>>)
    /\ UNCHANGED <<datasets, eda_reports, submitted, revoked,
                   config_at_create, upload_completed, notService>>

update_pipeline(pipeline_id, config) ==
    /\ Found(pipelines, pipeline_id)
    /\ pipelines' = update(pipelines, pipeline_id, "config", config)
    /\ result' = Result("update_pipeline", 0, "None", "None", <<>>)
    /\ UNCHANGED <<datasets, training_jobs, eda_reports, submitted, revoked,
                   config_at_create, upload_completed, notService>>

(***************************************************************************)
(* The service layer over a seeded database.  The seed script stores rows  *)
(* directly: at most one dataset and one training job are there at the     *)
(* start, in any status the table's check constraint allows, and the       *)
(* seeded job's snapshot is its pipeline's config.                         *)
(***************************************************************************)
EmptyTable == [i \in {} |-> 0]

SeededJob(config, status) ==
    [pipeline_id |-> SeededPipeline, dataset_id |-> 1, pipeline_snapshot |-> config,
     status |-> status,
     progress_percentage |-> IF status = "completed" THEN 100 ELSE 0,
     celery_task_id |-> 1]

InitService ==
    /\ \E config \in Configs :
          /\ pipelines = (SeededPipeline :> [config |-> config])
          /\ \/ /\ datasets = EmptyTable
                /\ training_jobs = EmptyTable
                /\ config_at_create = EmptyTable
             \/ \E ds \in valid_dataset_status :
                   /\ datasets = (1 :> [status |-> ds])
                   /\ \/ /\ training_jobs = EmptyTable
                         /\ config_at_create = EmptyTable
                      \/ \E js \in valid_job_status :
                            /\ training_jobs = (1 :> SeededJob(config, js))
                            /\ config_at_create = (1 :> config)
    /\ eda_reports = EmptyTable
    /\ submitted = {}
    /\ revoked = {}
    /\ upload_completed = {}
    /\ result = Result("init", 0, "None", "None", <<>>)

NextService ==
    \/ \E filename \in Filenames, file_size_bytes \in {0, 1024} :
          create_dataset(filename, file_size_bytes)
    \/ \E dataset_id \in DatasetIds : complete_upload(dataset_id)
    \/ \E pipeline_id \in PipelineIds, dataset_id \in DatasetIds, task_type \in TaskTypes :
          create_training_job(pipeline_id, dataset_id, task_type)
    \/ \E job_id \in JobIds, poll \in Polls : get_training_status(job_id, poll[1], poll[2])
    \/ \E job_id \in JobIds : cancel_training_job(job_id)
    \/ \E path \in PathParams, job_id \in JobIds : get_training_metrics(path, job_id)
    \/ \E dataset_id \in DatasetIds : queue_eda_generation(dataset_id)
    \/ \E pipeline_id \in PipelineIds, config \in Configs : update_pipeline(pipeline_id, config)

\* The other parts of the program, at rest.
IdleWorker == eda_tasks = <<>>
IdleImbalance == value_counts = <<>> /\ imbalance = [type |-> "idle"]
IdleValidator ==
    /\ pipeline_config = <<>>
    /\ X_sample = [columns |-> {}, rows |-> 0]
    /\ validation = [state |-> "idle"]
IdleInsights ==
    /\ eda_input = [rows |-> 0, columns |-> <<>>, correlations |-> <<>>]
    /\ insights = [state |-> "idle"]

IdleTools == tool_input = [tool |-> "none"] /\ tool_output = [state |-> "idle"]

Init ==
    InitService /\ IdleWorker /\ IdleImbalance /\ IdleValidator /\ IdleInsights /\ IdleTools

Next == NextService

Spec == Init /\ [][Next]_vars

(***************************************************************************)
(* Properties of the service layer                                         *)
(***************************************************************************)
Validated(dataset_id) ==
    Found(datasets, dataset_id) /\ datasets[dataset_id].status = "validated"

\* C2: create_training_job and queue_eda_generation store a row and submit a
\* Celery task only for a dataset that exists with status 'validated'; called
\* for a missing dataset or one in another status they raise ValueError and
\* store and submit nothing.
C2_OnlyValidatedDatasets ==
    [][/\ result'.op \in {"create_training_job", "queue_eda_generation"}
            => \/ Validated(result'.id)
               \/ /\ result'.exc = "ValueError"
                  /\ UNCHANGED <<training_jobs, eda_reports, submitted>>
       /\ \A j \in DOMAIN training_jobs' \ DOMAIN training_jobs :
             Validated(training_jobs'[j].dataset_id)
       /\ \A r \in DOMAIN eda_reports' \ DOMAIN eda_reports :
             Validated(eda_reports'[r].dataset_id)
       /\ \A t \in submitted' \ submitted :
             /\ result'.op \in {"create_training_job", "queue_eda_generation"}
             /\ Validated(result'.id)]_vars

\* C3: cancel_training_job raises ValueError for an unknown job; for a job
\* stored as completed, failed or cancelled it returns False, revokes nothing
\* and writes nothing; for a job stored as queued or running it revokes the
\* job's Celery task, stores status 'cancelled' and returns True.
C3_Cancel ==
    [][result'.op = "cancel_training_job" =>
          LET j == result'.id IN
          IF ~Found(training_jobs, j)
          THEN /\ result'.exc = "ValueError"
               /\ UNCHANGED <<training_jobs, revoked>>
          ELSE /\ training_jobs[j].status \in {"completed", "failed", "cancelled"}
                    => /\ result'.exc = "None"
                       /\ result'.ret = "False"
                       /\ result'.wrote = <<>>
                       /\ UNCHANGED <<training_jobs, revoked>>
               /\ training_jobs[j].status \in {"queued", "running"}
                    => /\ result'.exc = "None"
                       /\ result'.ret = "True"
                       /\ revoked' = revoked \cup {training_jobs[j].celery_task_id}
                       /\ training_jobs' =
                              [training_jobs EXCEPT ![j].status = "cancelled"]]_vars

\* C4: every status the service layer writes is allowed by the table's status
\* check constraint, so no write is rejected.
C4_WritesAllowed ==
    /\ \A write \in service_status_writes : Accepted(write[1], write[2])
    /\ \A i \in 1..Len(result.wrote) :
          result.wrote[i][2] \in StatusConstraint(result.wrote[i][1])
    /\ result.exc # "IntegrityError"

C6_CompleteUpload ==
    [][result'.op = "complete_upload" =>
          LET d == result'.id IN
          /\ IF Found(datasets, d) /\ datasets[d].status = "uploading"
             THEN /\ result'.exc = "None"
                  /\ datasets' = [datasets EXCEPT ![d].status = "uploaded"]
             ELSE /\ result'.exc = "ValueError"
                  /\ datasets' = datasets
          /\ d \in upload_completed => result'.exc = "ValueError"]_vars

\* A second complete_upload on a dataset has just failed.
C6_Witness ==
    /\ result.op = "complete_upload"
    /\ result.exc = "ValueError"
    /\ result.id \in upload_completed

\* C7: the metrics endpoint answers 404 for a job that is not stored, 409 for
\* a stored job whose status is not 'completed', and 200 with the metrics only
\* for a job stored as 'completed'.
C7_Metrics ==
    (result.op = "get_training_metrics" /\ result.id \in JobIds) =>
        /\ ~Found(training_jobs, result.id) => result.ret = "404"
        /\ (Found(training_jobs, result.id)
              /\ training_jobs[result.id].status # "completed") => result.ret = "409"
        /\ result.ret = "200" =>
              /\ Found(training_jobs, result.id)
              /\ training_jobs[result.id].status = "completed"

(***************************************************************************)
(* generate_eda_report: the Celery task, bound with max_retries, whose     *)
(* except clause ends in raise self.retry(exc=e).                          *)
(***************************************************************************)
max_retries == 3
MaxTasks == 2
TaskIds == 1..MaxTasks
\* The progress_pct of the task's update_state calls, in order.
ProgressSteps == <<10, 20, 30, 80, 100>>

should_retry_once_more(retries) == retries <= max_retries

\* self.retry(exc=e) on a request that has been retried `retries` times:
\* it sends the task again unless retries + 1 exceeds max_retries, and then
\* it raises exc, which ends the task in FAILURE.
should_retry(retries) == retries + 1 <= max_retries

InitWorker ==
    eda_tasks = [t \in TaskIds |->
                    [state |-> "PENDING", retries |-> 0, step |-> 0, executions |-> 0]]

\* A worker takes the task off the queue and calls generate_eda_report.
worker_start(t) ==
    /\ eda_tasks[t].state \in {"PENDING", "RETRY"}
    /\ eda_tasks' = [eda_tasks EXCEPT ![t].state = "STARTED",
                                      ![t].step = 0,
                                      ![t].executions = @ + 1]
    /\ UNCHANGED notWorker

\* The next self.update_state(state="PROGRESS", ...) of the try block.
worker_update_state(t) ==
    /\ eda_tasks[t].state \in {"STARTED", "PROGRESS"}
    /\ eda_tasks[t].step < Len(ProgressSteps)
    /\ eda_tasks' = [eda_tasks EXCEPT ![t].state = "PROGRESS", ![t].step = @ + 1]
    /\ UNCHANGED notWorker

\* The try block reaches its return.
worker_return(t) ==
    /\ eda_tasks[t].state = "PROGRESS"
    /\ eda_tasks[t].step = Len(ProgressSteps)
    /\ eda_tasks' = [eda_tasks EXCEPT ![t].state = "SUCCESS"]
    /\ UNCHANGED notWorker

\* Something in the try block raises: except Exception -> raise self.retry(exc=e).
worker_raise(t) ==
    /\ eda_tasks[t].state \in {"STARTED", "PROGRESS"}
    /\ eda_tasks' = IF should_retry(eda_tasks[t].retries)
                    THEN [eda_tasks EXCEPT ![t].state = "RETRY", ![t].retries = @ + 1]
                    ELSE [eda_tasks EXCEPT ![t].state = "FAILURE"]
    /\ UNCHANGED notWorker

NextWorker ==
    \/ \E t \in TaskIds : worker_start(t)
    \/ \E t \in TaskIds : worker_update_state(t)
    \/ \E t \in TaskIds : worker_return(t)
    \/ \E t \in TaskIds : worker_raise(t)

IdleService ==
    /\ datasets = EmptyTable
    /\ pipelines = EmptyTable
    /\ training_jobs = EmptyTable
    /\ eda_reports = EmptyTable
    /\ submitted = {}
    /\ revoked = {}
    /\ upload_completed = {}
    /\ config_at_create = EmptyTable
    /\ result = Result("init", 0, "None", "None", <<>>)

StartWorker ==
    InitWorker /\ IdleService /\ IdleImbalance /\ IdleValidator /\ IdleInsights /\ IdleTools

SpecWorker == StartWorker /\ [][NextWorker]_vars

\* C8: an execution of generate_eda_report that raises is retried, at most 3
\* times; the task ends in FAILURE only once its 3 retries are used up, so a
\* queued task is executed at most 4 times.
C8_Retries ==
    \A t \in TaskIds :
        /\ eda_tasks[t].retries <= 3
        /\ eda_tasks[t].executions <= 4
        /\ eda_tasks[t].state = "RETRY" => eda_tasks[t].executions = eda_tasks[t].retries
        /\ eda_tasks[t].state = "FAILURE" =>
              /\ eda_tasks[t].retries = 3
              /\ eda_tasks[t].executions = 4

\* A task has failed after its fourth execution.
C8_Witness ==
    \E t \in TaskIds : eda_tasks[t].state = "FAILURE" /\ eda_tasks[t].executions = 4

(***************************************************************************)
(* analyze_class_imbalance                                                 *)
(* value_counts is the dict's frequencies in the dict's order; an insight  *)
(* is its severity with the fixed text its message and recommendation      *)
(* start with.                                                             *)
(***************************************************************************)
MaxClasses == 3
MaxCount == 12

RECURSIVE Sum(_)
Sum(seq) == IF seq = <<>> THEN 0 ELSE Head(seq) + Sum(Tail(seq))

\* sorted(..., key=count, reverse=True): a stable sort, largest count first.
RECURSIVE InsertDescending(_, _)
InsertDescending(sorted_counts, count) ==
    IF sorted_counts = <<>> THEN <<count>>
    ELSE IF Head(sorted_counts) >= count
         THEN <<Head(sorted_counts)>> \o InsertDescending(Tail(sorted_counts), count)
         ELSE <<count>> \o sorted_counts

RECURSIVE SortedDescending(_)
SortedDescending(counts) ==
    IF counts = <<>> THEN <<>>
    ELSE InsertDescending(SortedDescending(SubSeq(counts, 1, Len(counts) - 1)),
                          counts[Len(counts)])

\* ratio = majority_count / minority_count, float('inf') for a minority of 0,
\* kept as the pair of counts; the comparisons are those of the quotient.
RatioAbove(majority_count, minority_count, num, den) ==
    minority_count = 0 \/ majority_count * den > num * minority_count

RatioAtLeast(majority_count, minority_count, num, den) ==
    minority_count = 0 \/ majority_count * den >= num * minority_count

imbalance_severity_inclusive(majority_count, minority_count) ==
    IF RatioAtLeast(majority_count, minority_count, 10, 1) THEN "high"
    ELSE IF RatioAtLeast(majority_count, minority_count, 3, 1) THEN "medium"
    ELSE IF RatioAtLeast(majority_count, minority_count, 3, 2) THEN "low"
    ELSE "balanced"

\* The severity ladder: > 10 high, >= 3 medium, >= 1.5 low, else balanced.
imbalance_severity(majority_count, minority_count) ==
    IF RatioAbove(majority_count, minority_count, 10, 1) THEN "high"
    ELSE IF RatioAtLeast(majority_count, minority_count, 3, 1) THEN "medium"
    ELSE IF RatioAtLeast(majority_count, minority_count, 3, 2) THEN "low"
    ELSE "balanced"

Insight(type, severity, column, message, recommendation) ==
    [type |-> type, severity |-> severity, column |-> column, message |-> message,
     recommendation |-> recommendation]

analyze_class_imbalance(column_name, counts) ==
    IF Len(counts) < 2
    THEN Insight("class_imbalance", "low", column_name,
                 "No imbalance analysis needed", "N/A")
    ELSE LET total == Sum(counts)
             sorted_counts == SortedDescending(counts)
             majority_count == sorted_counts[1]
             minority_count == sorted_counts[Len(sorted_counts)]
             severity == imbalance_severity(majority_count, minority_count) IN
         IF total = 0 THEN [type |-> "ZeroDivisionError"]
         ELSE IF severity = "balanced"
         THEN Insight("class_imbalance", "low", column_name, "is balanced",
                      "No action needed")
         ELSE Insight("class_imbalance", severity, column_name,
                      "Class imbalance detected",
                      IF RatioAbove(majority_count, minority_count, 10, 1)
                      THEN "Severe imbalance detected"
                      ELSE IF RatioAtLeast(majority_count, minority_count, 3, 1)
                      THEN "Use SMOTE oversampling"
                      ELSE "Mild imbalance")

RECURSIVE SeqsUpTo(_, _)
SeqsUpTo(S, n) ==
    IF n = 0 THEN {<<>>}
    ELSE LET shorter == SeqsUpTo(S, n - 1) IN
         shorter \cup {Append(seq, x) : seq \in {q \in shorter : Len(q) = n - 1}, x \in S}

InitImbalance ==
    /\ value_counts \in SeqsUpTo(0..MaxCount, MaxClasses)
    /\ imbalance = [type |-> "pending"]

call_analyze_class_imbalance ==
    /\ imbalance = [type |-> "pending"]
    /\ imbalance' = analyze_class_imbalance("target", value_counts)
    /\ UNCHANGED <<value_counts, notImbalance>>

NextImbalance == call_analyze_class_imbalance

StartImbalance ==
    InitImbalance /\ IdleService /\ IdleWorker /\ IdleValidator /\ IdleInsights /\ IdleTools

SpecImbalance == StartImbalance /\ [][NextImbalance]_vars

Largest(counts) == CHOOSE m \in 0..MaxCount :
    (\E i \in 1..Len(counts) : counts[i] = m) /\ (\A i \in 1..Len(counts) : counts[i] <= m)

Smallest(counts) == CHOOSE m \in 0..MaxCount :
    (\E i \in 1..Len(counts) : counts[i] = m) /\ (\A i \in 1..Len(counts) : counts[i] >= m)

MaxSteps == 2
MaxTargets == 2
Columns == {"age", "income"}
SampleRows == {1, 100}

SeqToSet(seq) == {seq[i] : i \in 1..Len(seq)}

\* The loop over the steps: all_columns is a set that every step's columns are
\* added to, and each step with missing columns appends one error.
RECURSIVE all_columns_of(_)
all_columns_of(steps) ==
    IF steps = <<>> THEN {}
    ELSE SeqToSet(Head(steps)) \cup all_columns_of(Tail(steps))

RECURSIVE missing_errors(_, _)
missing_errors(steps, sample_columns) ==
    IF steps = <<>> THEN <<>>
    ELSE LET missing_cols == SeqToSet(Head(steps)) \ sample_columns
             rest == missing_errors(Tail(steps), sample_columns) IN
         IF missing_cols # {}
         THEN <<[kind |-> "Missing columns in dataset", columns |-> missing_cols]>> \o rest
         ELSE rest

\* column_counts is filled by one pass over the set all_columns, which holds
\* each column once: count.get(col, 0) + 1 is 1 for every column.
column_counts(all_columns) == [col \in all_columns |-> 0 + 1]

duplicates_of(counts) == {col \in DOMAIN counts : counts[col] > 1}

validate_preprocessing_pipeline(steps, sample) ==
    LET all_columns == all_columns_of(steps)
        errors_missing == missing_errors(steps, sample.columns)
        duplicates == duplicates_of(column_counts(all_columns))
        errors == IF duplicates # {}
                  THEN Append(errors_missing,
                         [kind |-> "Duplicate column assignments", columns |-> duplicates])
                  ELSE errors_missing
        success == errors = <<>> IN
    [state |-> "returned",
     success |-> success,
     output_shape |-> IF success THEN <<sample.rows, Cardinality(all_columns)>>
                      ELSE <<>>,
     errors |-> errors]

InitValidator ==
    /\ pipeline_config \in SeqsUpTo(SeqsUpTo(Columns, MaxTargets), MaxSteps)
    /\ X_sample \in [columns : SUBSET Columns, rows : SampleRows]
    /\ validation = [state |-> "pending"]

call_validate_preprocessing_pipeline ==
    /\ validation = [state |-> "pending"]
    /\ validation' = validate_preprocessing_pipeline(pipeline_config, X_sample)
    /\ UNCHANGED <<pipeline_config, X_sample, notValidator>>

NextValidator == call_validate_preprocessing_pipeline

StartValidator ==
    InitValidator /\ IdleService /\ IdleWorker /\ IdleImbalance /\ IdleInsights /\ IdleTools

SpecValidator == StartValidator /\ [][NextValidator]_vars

InMoreThanOneStep(col) ==
    \E i, j \in 1..Len(pipeline_config) :
        i # j /\ col \in SeqToSet(pipeline_config[i]) /\ col \in SeqToSet(pipeline_config[j])

\* C9: whenever some column appears in the target_columns of more than one
\* pipeline step, validate_preprocessing_pipeline returns success = False with
\* a 'Duplicate column assignments' error.
C9_DuplicatesReported ==
    (validation.state = "returned" /\ \E col \in Columns : InMoreThanOneStep(col)) =>
        /\ validation.success = FALSE
        /\ \E i \in 1..Len(validation.errors) :
              validation.errors[i].kind = "Duplicate column assignments"

\* What the code does with such a pipeline when the sample holds its columns:
\* it returns success with no error at all.
C9_DuplicateAccepted ==
    /\ validation.state = "returned"
    /\ \E col \in Columns : InMoreThanOneStep(col)
    /\ validation.success = TRUE
    /\ validation.errors = <<>>

(***************************************************************************)
(* agents/eda_insights: the tools behind EDAInsightAgent.analyze.          *)
(* Percentages are integers; a correlation value is kept times 100; the    *)
(* list of outlier indices is kept as its length; a formatted message is   *)
(* kept as its template, with the numbers it prints where they are read    *)
(* back.                                                                   *)
(***************************************************************************)
MaxColumns == 2
ColumnNames == <<"col_a", "col_b", "col_c">>
ColumnTypes == {"numeric", "categorical", "datetime"}
TotalRows == {0, 1000}
OutlierCounts == {0, 5, 200}
MissingPcts == {0, 3, 30}
StatsSamples == {[mean |-> 30, q75 |-> 38], [mean |-> 50, q75 |-> 38]}
ValueCountSamples == {<<>>, <<0, 0>>, <<1, 1>>, <<2, 1>>, <<11, 1>>}
NoStats == [mean |-> 0, q75 |-> 0]

detect_outliers_insight(column_name, outlier_count, stats, total_rows) ==
    LET \* outlier_pct = outlier_count / total_rows * 100, or 0.0 without rows
        pct_above(n) == total_rows > 0 /\ outlier_count * 100 > n * total_rows
        pct_at_least(n) == total_rows > 0 /\ outlier_count * 100 >= n * total_rows
        severity == IF pct_above(10) THEN "high"
                    ELSE IF pct_at_least(1) THEN "medium"
                    ELSE "low"
        recommendation ==
            IF pct_above(5) THEN "Consider removing outliers"
            ELSE IF pct_at_least(1) THEN "Use RobustScaler"
            ELSE IF stats.mean > stats.q75 THEN "Apply log transformation"
            ELSE "Outliers are minimal" IN
    Insight("outlier_detection", severity, column_name, "outliers detected", recommendation)

missing_value_recommendations(column_name, missing_pct, column_type, total_rows) ==
    IF missing_pct <= 0
    THEN Insight("missing_values", "low", column_name, "No missing values", "N/A")
    ELSE LET missing_count == (missing_pct * total_rows) \div 100
             severity == IF missing_pct > 20 THEN "high"
                         ELSE IF missing_pct >= 5 THEN "medium"
                         ELSE "low"
             message == [text |-> "% missing values", pct |-> missing_pct,
                         missing_count |-> missing_count, total_rows |-> total_rows]
             recommendation ==
                 IF column_type = "numeric"
                 THEN IF missing_pct > 20 THEN "Use KNN imputation or a missing indicator"
                      ELSE IF missing_pct >= 5 THEN "Use median or KNN imputation"
                      ELSE "Use simple median or mean imputation"
                 ELSE IF column_type = "categorical"
                 THEN IF missing_pct > 20 THEN "Create a separate Missing category"
                      ELSE IF missing_pct >= 5 THEN "Use mode imputation or Missing category"
                      ELSE "Use mode imputation or drop rows"
                 ELSE IF column_type = "datetime"
                 THEN IF missing_pct > 5 THEN "Use forward fill or drop rows"
                      ELSE "Drop rows or use forward/backward fill"
                 ELSE "Review missing value pattern" IN
         Insight("missing_values", severity, column_name, message, recommendation)

abs(x) == IF x < 0 THEN 0 - x ELSE x

weak_correlation == 50

correlation_insight(col1, col2, corr_value, threshold) ==
    LET strong == abs(corr_value) >= threshold IN
    [type |-> "correlation",
     severity |-> IF strong THEN "medium" ELSE "low",
     columns |-> <<col1, col2>>,
     message |-> [strength |-> IF strong THEN "Strong" ELSE "Moderate",
                  corr_type |-> IF corr_value > 0 THEN "positive" ELSE "negative",
                  corr_value |-> corr_value],
     recommendation |-> IF strong THEN "Consider removing one or apply PCA"
                        ELSE "Monitor for multicollinearity"]

\* The double loop over the matrix, entry by entry in the dict's order.
RECURSIVE interpret_correlations_from(_, _, _)
interpret_correlations_from(entries, processed_pairs, threshold) ==
    IF entries = <<>> THEN <<>>
    ELSE LET col1 == Head(entries)[1]
             col2 == Head(entries)[2]
             corr_value == Head(entries)[3]
             pair_key == {col1, col2} IN
         IF col1 = col2 \/ pair_key \in processed_pairs
         THEN interpret_correlations_from(Tail(entries), processed_pairs, threshold)
         ELSE IF abs(corr_value) < weak_correlation
         THEN interpret_correlations_from(Tail(entries), processed_pairs \cup {pair_key},
                                          threshold)
         ELSE <<correlation_insight(col1, col2, corr_value, threshold)>>
              \o interpret_correlations_from(Tail(entries),
                                             processed_pairs \cup {pair_key}, threshold)

interpret_correlations(correlation_matrix, threshold) ==
    interpret_correlations_from(correlation_matrix, {}, threshold)

\* sorted(insights, key=severity_order): a stable sort, high then medium then low.
with_severity(insight_list, severity) ==
    SelectSeq(insight_list, LAMBDA insight : insight.severity = severity)

input_order(insight_list) == insight_list

sorted_insights(insight_list) ==
    with_severity(insight_list, "high") \o with_severity(insight_list, "medium")
        \o with_severity(insight_list, "low")

summary_part(insight) ==
    IF insight.type = "missing_values" /\ insight.column # ""
    THEN IF "pct" \in DOMAIN insight.message
         THEN <<[text |-> "handling % missing values in", pct |-> insight.message.pct,
                 column |-> insight.column]>>
         ELSE <<[text |-> "handling missing values in", column |-> insight.column]>>
    ELSE IF insight.type = "class_imbalance" /\ insight.column # ""
    THEN <<[text |-> "addressing class imbalance in", column |-> insight.column]>>
    ELSE IF insight.type = "outlier_detection" /\ insight.column # ""
    THEN <<[text |-> "handling outliers in", column |-> insight.column]>>
    ELSE IF insight.type = "correlation" /\ Len(insight.columns) = 2
    THEN <<[text |-> "addressing correlation between", columns |-> insight.columns]>>
    ELSE <<>>

RECURSIVE summary_parts(_)
summary_parts(top_issues) ==
    IF top_issues = <<>> THEN <<>>
    ELSE summary_part(Head(top_issues)) \o summary_parts(Tail(top_issues))

generate_summary_recommendation(insight_list) ==
    LET sorted == sorted_insights(insight_list)
        top_issues == SubSeq(sorted, 1, IF Len(sorted) < 3 THEN Len(sorted) ELSE 3)
        high_count == Len(with_severity(insight_list, "high"))
        medium_count == Len(with_severity(insight_list, "medium"))
        parts == summary_parts(top_issues) IN
    IF insight_list = <<>>
    THEN [text |-> "No significant data quality issues detected", parts |-> <<>>,
          high_count |-> 0]
    ELSE IF high_count = 0 /\ medium_count = 0
    THEN [text |-> "Only minor data quality issues detected", parts |-> <<>>,
          high_count |-> 0]
    ELSE IF parts = <<>>
    THEN [text |-> "Review identified data quality issues", parts |-> <<>>,
          high_count |-> 0]
    ELSE [text |-> "Focus on", parts |-> parts, high_count |-> high_count]

(***************************************************************************)
(* agents/eda_insights/agent.py                                            *)
(***************************************************************************)
correlation_threshold == 70

RECURSIVE outlier_insights(_, _)
outlier_insights(columns, total_rows) ==
    IF columns = <<>> THEN <<>>
    ELSE LET column == Head(columns)
             rest == outlier_insights(Tail(columns), total_rows) IN
         IF column.type = "numeric" /\ column.outliers > 0
         THEN <<detect_outliers_insight(column.name, column.outliers, column.stats,
                                        total_rows)>> \o rest
         ELSE rest

RECURSIVE imbalance_insights(_)
imbalance_insights(columns) ==
    IF columns = <<>> THEN <<>>
    ELSE LET column == Head(columns)
             rest == imbalance_insights(Tail(columns))
             insight == analyze_class_imbalance(column.name, column.value_counts) IN
         IF column.type = "categorical" /\ column.value_counts # <<>>
         THEN IF insight.type = "ZeroDivisionError" THEN <<insight>> \o rest
              ELSE IF insight.severity # "low" \/ insight.message = "Class imbalance detected"
              THEN <<insight>> \o rest
              ELSE rest
         ELSE rest

RECURSIVE missing_insights(_, _)
missing_insights(columns, total_rows) ==
    IF columns = <<>> THEN <<>>
    ELSE LET column == Head(columns)
             rest == missing_insights(Tail(columns), total_rows) IN
         IF column.missing_pct > 0
         THEN <<missing_value_recommendations(column.name, column.missing_pct, column.type,
                                              total_rows)>> \o rest
         ELSE rest

_generate_insights_direct(input) ==
    outlier_insights(input.columns, input.rows)
        \o imbalance_insights(input.columns)
        \o missing_insights(input.columns, input.rows)
        \o interpret_correlations(input.correlations, correlation_threshold)

\* Insight(**insight).model_dump(): every insight gets both column and columns.
model_dump(insight) ==
    [type |-> insight.type, severity |-> insight.severity,
     column |-> IF "column" \in DOMAIN insight THEN insight.column ELSE "None",
     columns |-> IF "columns" \in DOMAIN insight THEN insight.columns ELSE <<>>,
     message |-> insight.message, recommendation |-> insight.recommendation]

analyze(input) ==
    LET generated == _generate_insights_direct(input) IN
    IF \E i \in 1..Len(generated) : generated[i].type = "ZeroDivisionError"
    THEN [state |-> "raised", exc |-> "ZeroDivisionError"]
    ELSE [state |-> "returned",
          insights |-> [i \in 1..Len(generated) |-> model_dump(generated[i])],
          summary_recommendation |-> generate_summary_recommendation(generated)]

\* What the EDA step hands over: outliers for numeric columns, value counts for
\* categorical ones, a missing percentage for all.
ColumnProfiles ==
    {[type |-> "numeric", stats |-> stats, outliers |-> outliers, missing_pct |-> pct,
      value_counts |-> <<>>] :
        stats \in StatsSamples, outliers \in OutlierCounts, pct \in MissingPcts}
    \cup {[type |-> "categorical", stats |-> NoStats, outliers |-> 0, missing_pct |-> pct,
           value_counts |-> counts] :
               counts \in ValueCountSamples, pct \in {0, 30} \cap MissingPcts}
    \cup {[type |-> "datetime", stats |-> NoStats, outliers |-> 0, missing_pct |-> pct,
           value_counts |-> <<>>] : pct \in MissingPcts}

ColumnInfo(name, profile) ==
    [name |-> name, type |-> profile.type, stats |-> profile.stats,
     outliers |-> profile.outliers, missing_pct |-> profile.missing_pct,
     value_counts |-> profile.value_counts]

\* correlations.matrix, flattened in iteration order to <<col1, col2, value>>.
CorrelationMatrices ==
    {<<>>,
     <<<<"col_a", "col_b", 90>>>>,
     <<<<"col_a", "col_a", 100>>, <<"col_a", "col_b", 55>>,
       <<"col_b", "col_a", 55>>, <<"col_b", "col_b", 100>>>>,
     <<<<"col_a", "col_b", 0 - 30>>, <<"col_b", "col_a", 0 - 80>>>>}

EDAInsightInput(rows, profiles, matrix) ==
    [rows |-> rows,
     columns |-> [i \in 1..Len(profiles) |-> ColumnInfo(ColumnNames[i], profiles[i])],
     correlations |-> matrix]

InitInsights ==
    /\ \E rows \in TotalRows, profiles \in SeqsUpTo(ColumnProfiles, MaxColumns),
          matrix \in CorrelationMatrices :
             eda_input = EDAInsightInput(rows, profiles, matrix)
    /\ insights = [state |-> "pending"]

call_analyze ==
    /\ insights = [state |-> "pending"]
    /\ insights' = analyze(eda_input)
    /\ UNCHANGED <<eda_input, notInsights>>

NextInsights == call_analyze

StartInsights ==
    InitInsights /\ IdleService /\ IdleWorker /\ IdleImbalance /\ IdleValidator /\ IdleTools

SpecInsights == StartInsights /\ [][NextInsights]_vars

severity_rank(severity) ==
    IF severity = "high" THEN 0 ELSE IF severity = "medium" THEN 1 ELSE 2

\* C10: the insights list returned by EDAInsightAgent.analyze is ordered by
\* severity: no insight of lower severity precedes an insight of higher
\* severity (all high, then all medium, then all low).
C10_OrderedBySeverity ==
    insights.state = "returned" =>
        \A i, j \in 1..Len(insights.insights) :
            i < j => severity_rank(insights.insights[i].severity)
                        <= severity_rank(insights.insights[j].severity)

\* What the code returns for a numeric column with few outliers next to a
\* column with many missing values: the low outlier insight first, the high
\* missing-values insight after it.
C10_LowBeforeHigh ==
    /\ insights.state = "returned"
    /\ Len(insights.insights) >= 2
    /\ insights.insights[1].type = "outlier_detection"
    /\ insights.insights[1].severity = "low"
    /\ \E j \in 2..Len(insights.insights) : insights.insights[j].severity = "high"

(***************************************************************************)
(* The rule-based tools called on their own.  tool_input holds the         *)
(* arguments of one call, tool_output what the call returned.              *)
(***************************************************************************)
Returned(value) == [state |-> "returned", value |-> value]

Called(tool) == tool_input.tool = tool /\ tool_output.state = "returned"

(***************************************************************************)
(* interpret_correlations(correlation_matrix, threshold)                   *)
(***************************************************************************)
MaxEntries == 2
Features == {"Age", "Fare"}
CorrelationSamples == {0 - 80, 0 - 55, 30, 55, 70}
Thresholds == {30, 70, 90}

CorrelationEntries == Features \X Features \X CorrelationSamples

\* A nested dict holds one value for each (col1, col2).
IsMatrix(entries) ==
    \A i, j \in 1..Len(entries) :
        (entries[i][1] = entries[j][1] /\ entries[i][2] = entries[j][2]) => i = j

InitCorrelations ==
    /\ \E entries \in SeqsUpTo(CorrelationEntries, MaxEntries), threshold \in Thresholds :
          /\ IsMatrix(entries)
          /\ tool_input = [tool |-> "interpret_correlations",
                           correlation_matrix |-> entries, threshold |-> threshold]
    /\ tool_output = [state |-> "pending"]

call_interpret_correlations ==
    /\ tool_input.tool = "interpret_correlations"
    /\ tool_output = [state |-> "pending"]
    /\ tool_output' = Returned(interpret_correlations(tool_input.correlation_matrix,
                                                      tool_input.threshold))
    /\ UNCHANGED <<tool_input, notTools>>

StartCorrelations ==
    InitCorrelations /\ IdleService /\ IdleWorker /\ IdleImbalance /\ IdleValidator
        /\ IdleInsights

SpecCorrelations == StartCorrelations /\ [][call_interpret_correlations]_vars

\* C11: interpret_correlations reports a pair of features only if the
\* absolute value of its correlation is at least the given threshold: no pair
\* with |r| below the threshold is in the result.
C11_OnlyAtLeastThreshold ==
    Called("interpret_correlations") =>
        \A i \in 1..Len(tool_output.value) :
            abs(tool_output.value[i].message.corr_value) >= tool_input.threshold

\* What the code returns for one pair with r = -0.55 and threshold 0.7: the
\* pair, as a 'Moderate' insight of low severity.
C11_ModerateReported ==
    /\ Called("interpret_correlations")
    /\ tool_input.threshold = 70
    /\ \E i \in 1..Len(tool_output.value) :
          /\ tool_output.value[i].message.corr_value = 0 - 55
          /\ tool_output.value[i].severity = "low"

(***************************************************************************)
(* agents/pipeline_builder/tools/imputation_recommender.py                 *)
(* missing_pct is a percentage, 0.0 to 100.0; whole percentages are taken. *)
(***************************************************************************)
Percentages == 0..100
DataTypes == {"numeric", "categorical"}

recommend_imputation_strategy(column_name, missing_pct, data_type, has_outliers) ==
    IF data_type = "categorical" THEN "mode"
    ELSE IF missing_pct < 5 THEN (IF has_outliers THEN "median" ELSE "mean")
    ELSE IF 5 <= missing_pct /\ missing_pct <= 20
    THEN (IF has_outliers THEN "median" ELSE "mean")
    ELSE IF missing_pct < 40 THEN "knn" ELSE "iterative"

InitImputation ==
    /\ \E missing_pct \in Percentages, data_type \in DataTypes, has_outliers \in BOOLEAN :
          tool_input = [tool |-> "recommend_imputation_strategy", column_name |-> "age",
                        missing_pct |-> missing_pct, data_type |-> data_type,
                        has_outliers |-> has_outliers]
    /\ tool_output = [state |-> "pending"]

call_recommend_imputation_strategy ==
    /\ tool_input.tool = "recommend_imputation_strategy"
    /\ tool_output = [state |-> "pending"]
    /\ tool_output' = Returned(recommend_imputation_strategy(
                                   tool_input.column_name, tool_input.missing_pct,
                                   tool_input.data_type, tool_input.has_outliers))
    /\ UNCHANGED <<tool_input, notTools>>

StartImputation ==
    InitImputation /\ IdleService /\ IdleWorker /\ IdleImbalance /\ IdleValidator
        /\ IdleInsights

SpecImputation == StartImputation /\ [][call_recommend_imputation_strategy]_vars

\* C12: recommend_imputation_strategy follows the documented table: a
\* categorical column gets 'mode' at every percentage; a numeric column gets
\* 'mean' (no outliers) or 'median' (outliers) below 5% missing, 'median' from
\* 5% to 20%, 'knn' above 20% up to 40%, and 'iterative' only above 40%.
C12_DecisionTable ==
    Called("recommend_imputation_strategy") =>
        LET pct == tool_input.missing_pct
            strategy == tool_output.value IN
        IF tool_input.data_type = "categorical" THEN strategy = "mode"
        ELSE /\ pct < 5 => strategy = (IF tool_input.has_outliers THEN "median" ELSE "mean")
             /\ (5 <= pct /\ pct <= 20) => strategy = "median"
             /\ (20 < pct /\ pct <= 40) => strategy = "knn"
             /\ strategy = "iterative" => pct > 40

\* What the code returns for a numeric column with exactly 40% missing.
C12_IterativeAtForty ==
    /\ Called("recommend_imputation_strategy")
    /\ tool_input.data_type = "numeric"
    /\ tool_input.missing_pct = 40
    /\ tool_output.value = "iterative"

(***************************************************************************)
(* recommend_encoding_strategy of the pipeline builder.  The target        *)
(* correlation is kept times 100.                                          *)
(***************************************************************************)
UniqueValues == 0..120
TargetCorrelations == {0 - 45, 0 - 30, 0 - 10, 0, 10, 30, 31, 45}

recommend_encoding_strategy(unique_values, target_correlation) ==
    IF unique_values < 10 THEN "onehot"
    ELSE IF 10 <= unique_values /\ unique_values <= 50
    THEN (IF abs(target_correlation) > 30 THEN "target" ELSE "onehot")
    ELSE IF unique_values > 100 THEN "hash" ELSE "target"

InitEncoding ==
    /\ \E unique_values \in UniqueValues, target_correlation \in TargetCorrelations :
          tool_input = [tool |-> "recommend_encoding_strategy",
                        unique_values |-> unique_values,
                        target_correlation |-> target_correlation]
    /\ tool_output = [state |-> "pending"]

call_recommend_encoding_strategy ==
    /\ tool_input.tool = "recommend_encoding_strategy"
    /\ tool_output = [state |-> "pending"]
    /\ tool_output' = Returned(recommend_encoding_strategy(
                                   tool_input.unique_values, tool_input.target_correlation))
    /\ UNCHANGED <<tool_input, notTools>>

StartEncoding ==
    InitEncoding /\ IdleService /\ IdleWorker /\ IdleImbalance /\ IdleValidator
        /\ IdleInsights

SpecEncoding == StartEncoding /\ [][call_recommend_encoding_strategy]_vars

\* C13: recommend_encoding_strategy returns 'target' only when the absolute
\* target correlation is above 0.3, whatever the number of unique values.
C13_TargetOnlyWhenCorrelated ==
    (Called("recommend_encoding_strategy") /\ tool_output.value = "target")
        => abs(tool_input.target_correlation) > 30

\* What the code returns for 75 unique values and a correlation of 0.1.
C13_TargetWithoutCorrelation ==
    /\ Called("recommend_encoding_strategy")
    /\ tool_input.unique_values = 75
    /\ tool_input.target_correlation = 10
    /\ tool_output.value = "target"

(***************************************************************************)
(* detect_column_type of the schema deduction agent.  Column names and     *)
(* sample values come from a small vocabulary; what Python's str.strip,    *)
(* str.lower, float, re.search and the substring tests give on each word   *)
(* of the vocabulary is written out below.                                 *)
(***************************************************************************)
MaxSamples == 3
SampleNames == {"survived", "is_active", "created_at", "user_id", "category"}
SampleValues == {"", " 1", "0", "1", "Yes", "no", "3.5", "2023-01-01", "A", "B"}

strip(v) == IF v = " 1" THEN "1" ELSE v
lower(s) == IF s = "Yes" THEN "yes"
            ELSE IF s = "A" THEN "a"
            ELSE IF s = "B" THEN "b"
            ELSE s
parses_as_float(s) == s \in {"0", "1", "3.5"}
searches_datetime(s) == s \in {"2023-01-01"}
has_datetime_keyword(column_name) == column_name \in {"created_at"}
has_boolean_prefix(column_name) == column_name \in {"is_active"}
has_numeric_keyword(column_name) == column_name \in {"user_id"}

_is_numeric_pattern(samples) ==
    LET numeric_count == Cardinality({i \in DOMAIN samples : parses_as_float(samples[i])}) IN
    numeric_count * 10 >= 8 * Len(samples)

boolean_values == {"true", "false", "yes", "no", "0", "1", "t", "f", "y", "n"}

_is_boolean_pattern(samples) ==
    LET unique_lower == {lower(samples[i]) : i \in DOMAIN samples} IN
    unique_lower \subseteq boolean_values /\ Cardinality(unique_lower) <= 2

_is_datetime_pattern(samples) ==
    LET match_count == Cardinality({i \in DOMAIN samples : searches_datetime(samples[i])}) IN
    match_count * 10 >= 7 * Len(samples)

clean(sample_values) ==
    LET truthy(v) == v # "" IN
    [i \in 1..Len(SelectSeq(sample_values, truthy)) |->
        strip(SelectSeq(sample_values, truthy)[i])]

low_uniqueness(samples) == 2 * Cardinality(SeqToSet(samples)) < Len(samples)

detect_column_type(column_name, sample_values) ==
    LET clean_samples == clean(sample_values) IN
    IF clean_samples = <<>> THEN "text"
    ELSE IF has_datetime_keyword(column_name) /\ _is_datetime_pattern(clean_samples)
    THEN "datetime"
    ELSE IF has_boolean_prefix(column_name) /\ _is_boolean_pattern(clean_samples)
    THEN "boolean"
    ELSE IF has_numeric_keyword(column_name) /\ _is_numeric_pattern(clean_samples)
    THEN "numeric"
    ELSE IF _is_numeric_pattern(clean_samples) THEN "numeric"
    ELSE IF _is_boolean_pattern(clean_samples) THEN "boolean"
    ELSE IF _is_datetime_pattern(clean_samples) THEN "datetime"
    ELSE IF low_uniqueness(clean_samples) THEN "categorical"
    ELSE "text"

InitColumnType ==
    /\ \E column_name \in SampleNames, sample_values \in SeqsUpTo(SampleValues, MaxSamples) :
          tool_input = [tool |-> "detect_column_type", column_name |-> column_name,
                        sample_values |-> sample_values]
    /\ tool_output = [state |-> "pending"]

call_detect_column_type ==
    /\ tool_input.tool = "detect_column_type"
    /\ tool_output = [state |-> "pending"]
    /\ tool_output' = Returned(detect_column_type(tool_input.column_name,
                                                  tool_input.sample_values))
    /\ UNCHANGED <<tool_input, notTools>>

StartColumnType ==
    InitColumnType /\ IdleService /\ IdleWorker /\ IdleImbalance /\ IdleValidator
        /\ IdleInsights

SpecColumnType == StartColumnType /\ [][call_detect_column_type]_vars

OnlyZeroAndOne(samples) == samples # <<>> /\ SeqToSet(samples) \subseteq {"0", "1"}

\* C14: detect_column_type applies its detection priority in the order
\* datetime, boolean, numeric, categorical, text: the returned type is the
\* first of these whose pattern the samples match, so a column whose samples
\* are only '0' and '1' is 'boolean' and never 'numeric'.
C14_DetectionPriority ==
    Called("detect_column_type") =>
        LET samples == clean(tool_input.sample_values)
            detected == tool_output.value IN
        samples # <<>> =>
            /\ detected = (IF _is_datetime_pattern(samples) THEN "datetime"
                           ELSE IF _is_boolean_pattern(samples) THEN "boolean"
                           ELSE IF _is_numeric_pattern(samples) THEN "numeric"
                           ELSE IF low_uniqueness(samples) THEN "categorical"
                           ELSE "text")
            /\ OnlyZeroAndOne(samples) => detected = "boolean"

\* What the code returns for the column 'survived' with samples '0', '1', '1'.
C14_ZeroOneNumeric ==
    /\ Called("detect_column_type")
    /\ tool_input.column_name = "survived"
    /\ tool_input.sample_values = <<"0", "1", "1">>
    /\ tool_output.value = "numeric"

(***************************************************************************)
(* suggest_datetime_format of the schema deduction agent.  The samples     *)
(* come from a vocabulary with one word per documented format, one word    *)
(* that is no date and the empty string; each re.match of _detect_format   *)
(* is the set of words it matches (re.match anchors at the start only, so  *)
(* a pattern also matches every word it is a prefix pattern of).           *)
(***************************************************************************)
MaxDateSamples == 3
DateSamples ==
    {"", "hello", "2023-01-15T14:30:00+02:00", "2023-01-15T14:30:00", "2023-01-15",
     "2023/01/15", "01/15/2023", "15/01/2023", "15-01-2023", "2023-01-15 14:30:00",
     "15/01/2023 14:30:00", "1673792400"}

match_iso_timezone(sample) == sample \in {"2023-01-15T14:30:00+02:00"}
match_iso_seconds(sample) ==
    sample \in {"2023-01-15T14:30:00+02:00", "2023-01-15T14:30:00"}
match_iso_date(sample) ==
    sample \in {"2023-01-15T14:30:00+02:00", "2023-01-15T14:30:00", "2023-01-15",
                "2023-01-15 14:30:00"}
match_year_slash(sample) == sample \in {"2023/01/15"}
match_slash_year(sample) ==
    sample \in {"01/15/2023", "15/01/2023", "15/01/2023 14:30:00"}
match_hyphen_year(sample) == sample \in {"15-01-2023"}
match_sql(sample) == sample \in {"2023-01-15 14:30:00"}
match_slash_year_time(sample) == sample \in {"15/01/2023 14:30:00"}
match_unix(sample) == sample \in {"1673792400"}

\* int(sample.split("/")[0]) of the words that match_slash_year matches; each
\* of them splits into three parts.
month_of(sample) == IF sample = "01/15/2023" THEN 1 ELSE 15

_detect_format(sample) ==
    IF match_iso_timezone(sample) THEN "YYYY-MM-DDTHH:MM:SS+TZ"
    ELSE IF match_iso_seconds(sample) THEN "YYYY-MM-DDTHH:MM:SS"
    ELSE IF match_iso_date(sample) THEN "YYYY-MM-DD"
    ELSE IF match_year_slash(sample) THEN "YYYY/MM/DD"
    ELSE IF match_slash_year(sample)
    THEN (IF month_of(sample) > 12 THEN "DD/MM/YYYY" ELSE "MM/DD/YYYY")
    ELSE IF match_hyphen_year(sample) THEN "DD-MM-YYYY"
    ELSE IF match_hyphen_year(sample) THEN "MM-DD-YYYY"
    ELSE IF match_sql(sample) THEN "YYYY-MM-DD HH:MM:SS"
    ELSE IF match_slash_year_time(sample) THEN "DD/MM/YYYY HH:MM:SS"
    ELSE IF match_unix(sample) THEN "Unix Timestamp"
    ELSE "YYYY-MM-DD"

\* Counter.most_common(1): the votes are counted in sample order and the first
\* format counted among those with the highest count is returned.
votes_for(formats, format) == Cardinality({i \in DOMAIN formats : formats[i] = format})

most_common(formats) ==
    LET best(i) == \A j \in DOMAIN formats :
                       votes_for(formats, formats[j]) <= votes_for(formats, formats[i])
        first == CHOOSE i \in DOMAIN formats :
                     best(i) /\ \A j \in DOMAIN formats : best(j) => i <= j IN
    formats[first]

suggest_datetime_format(date_samples) ==
    IF date_samples = <<>> THEN "YYYY-MM-DD"
    ELSE LET clean_samples == clean(date_samples)
             \* every detected format is a non-empty string, so every clean
             \* sample passes "if detected_format" and is counted
             format_votes == [i \in DOMAIN clean_samples |->
                                 _detect_format(clean_samples[i])] IN
         IF clean_samples = <<>> THEN "YYYY-MM-DD"
         ELSE most_common(format_votes)

InitDatetime ==
    /\ \E date_samples \in SeqsUpTo(DateSamples, MaxDateSamples) :
          tool_input = [tool |-> "suggest_datetime_format", date_samples |-> date_samples]
    /\ tool_output = [state |-> "pending"]

call_suggest_datetime_format ==
    /\ tool_input.tool = "suggest_datetime_format"
    /\ tool_output = [state |-> "pending"]
    /\ tool_output' = Returned(suggest_datetime_format(tool_input.date_samples))
    /\ UNCHANGED <<tool_input, notTools>>

StartDatetime ==
    InitDatetime /\ IdleService /\ IdleWorker /\ IdleImbalance /\ IdleValidator
        /\ IdleInsights

SpecDatetime == StartDatetime /\ [][call_suggest_datetime_format]_vars

matches_a_pattern(sample) ==
    \/ match_iso_timezone(sample) \/ match_iso_seconds(sample) \/ match_iso_date(sample)
    \/ match_year_slash(sample) \/ match_slash_year(sample) \/ match_hyphen_year(sample)
    \/ match_sql(sample) \/ match_slash_year_time(sample) \/ match_unix(sample)

\* C15: suggest_datetime_format returns the format that most samples match:
\* only a sample that matches a known pattern casts a vote, for the format
\* _detect_format gives it, and 'YYYY-MM-DD' is the fallback only when no
\* sample matches any pattern.
C15_MajorityOfMatching ==
    Called("suggest_datetime_format") =>
        LET matching == SelectSeq(clean(tool_input.date_samples), matches_a_pattern)
            votes == [i \in DOMAIN matching |-> _detect_format(matching[i])] IN
        IF matching = <<>> THEN tool_output.value = "YYYY-MM-DD"
        ELSE /\ votes_for(votes, tool_output.value) > 0
             /\ \A i \in DOMAIN votes :
                    votes_for(votes, votes[i]) <= votes_for(votes, tool_output.value)

\* Two samples that are no dates outvote one US date.
C15_NonMatchingVotes ==
    /\ Called("suggest_datetime_format")
    /\ tool_input.date_samples = <<"hello", "hello", "01/15/2023">>
    /\ tool_output.value = "YYYY-MM-DD"

AllSamplesAre(sample) ==
    /\ tool_input.date_samples # <<>>
    /\ SeqToSet(tool_input.date_samples) = {sample}

\* C16: the formats with a time of day are returned for their samples: samples
\* written as 'YYYY-MM-DD HH:MM:SS' are classified as 'YYYY-MM-DD HH:MM:SS' and
\* samples written as 'DD/MM/YYYY HH:MM:SS' as 'DD/MM/YYYY HH:MM:SS', not as
\* the date-only format.
C16_TimeFormatsReturned ==
    Called("suggest_datetime_format") =>
        /\ AllSamplesAre("2023-01-15 14:30:00")
               => tool_output.value = "YYYY-MM-DD HH:MM:SS"
        /\ AllSamplesAre("15/01/2023 14:30:00")
               => tool_output.value = "DD/MM/YYYY HH:MM:SS"

\* An SQL timestamp is classified as the date-only format.
C16_SqlAsDateOnly ==
    /\ Called("suggest_datetime_format")
    /\ tool_input.date_samples = <<"2023-01-15 14:30:00">>
    /\ tool_output.value = "YYYY-MM-DD"

(***************************************************************************)
(* generate_summary_recommendation called on its own, with up to           *)
(* MaxInsights insights.  The insight at position i is about the i-th      *)
(* column of InsightColumns, or carries an empty column, or is of a type   *)
(* the summary has no phrase for.                                          *)
(***************************************************************************)
MaxInsights == 4
InsightColumns == <<"Age", "Fare", "Cabin", "Embarked", "Sex", "Pclass">>
Severities == {"high", "medium", "low"}
InsightKinds == {"missing_values", "missing_values without column", "duplicate_rows"}

insight_at(i, severity, kind) ==
    IF kind = "missing_values"
    THEN Insight("missing_values", severity, InsightColumns[i],
                 [text |-> "% missing values", pct |-> 30], "Use median or KNN imputation")
    ELSE IF kind = "missing_values without column"
    THEN Insight("missing_values", severity, "",
                 [text |-> "% missing values", pct |-> 30], "Use median or KNN imputation")
    ELSE Insight("duplicate_rows", severity, InsightColumns[i], [text |-> "duplicates"],
                 "Drop duplicates")

InitSummary ==
    /\ \E n \in 0..MaxInsights :
          \E choice \in [1..n -> Severities \X InsightKinds] :
              tool_input = [tool |-> "generate_summary_recommendation",
                            insights |-> [i \in 1..n |->
                                             insight_at(i, choice[i][1], choice[i][2])]]
    /\ tool_output = [state |-> "pending"]

call_generate_summary_recommendation ==
    /\ tool_input.tool = "generate_summary_recommendation"
    /\ tool_output = [state |-> "pending"]
    /\ tool_output' = Returned(generate_summary_recommendation(tool_input.insights))
    /\ UNCHANGED <<tool_input, notTools>>

StartSummary ==
    InitSummary /\ IdleService /\ IdleWorker /\ IdleImbalance /\ IdleValidator
        /\ IdleInsights

SpecSummary == StartSummary /\ [][call_generate_summary_recommendation]_vars

\* The positions of the three insights of highest severity: an insight is
\* among them when fewer than three insights come before it, an insight
\* coming before another when it is more severe, or as severe and earlier
\* in the input.
HighestThree(insight_list) ==
    LET before(j, i) ==
            \/ severity_rank(insight_list[j].severity) < severity_rank(insight_list[i].severity)
            \/ /\ insight_list[j].severity = insight_list[i].severity
               /\ j < i IN
    {i \in DOMAIN insight_list :
        Cardinality({j \in DOMAIN insight_list : before(j, i)}) < 3}

\* C17: generate_summary_recommendation names at most three issues, and each
\* issue it names is one of the three insights of highest severity (high
\* before medium before low, ties in input order); with no insights it
\* returns the 'No significant data quality issues' sentence, and with only
\* low-severity insights the 'Only minor data quality issues' sentence.
C17_TopThreeBySeverity ==
    Called("generate_summary_recommendation") =>
        LET insight_list == tool_input.insights
            summary == tool_output.value IN
        /\ insight_list = <<>>
               => summary.text = "No significant data quality issues detected"
        /\ (insight_list # <<>>
               /\ \A i \in DOMAIN insight_list : insight_list[i].severity = "low")
               => summary.text = "Only minor data quality issues detected"
        /\ Len(summary.parts) <= 3
        /\ \A k \in DOMAIN summary.parts :
               \E i \in HighestThree(insight_list) :
                   summary_part(insight_list[i]) = <<summary.parts[k]>>

\* Four insights, the only high-severity one last in the input: the summary
\* names it first and leaves out the third low-severity one.
C17_Witness ==
    /\ Called("generate_summary_recommendation")
    /\ Len(tool_input.insights) = 4
    /\ \A i \in 1..3 : /\ tool_input.insights[i].severity = "low"
                       /\ tool_input.insights[i].column = InsightColumns[i]
                       /\ tool_input.insights[i].type = "missing_values"
    /\ tool_input.insights[4].severity = "high"
    /\ tool_input.insights[4].column = "Embarked"
    /\ tool_input.insights[4].type = "missing_values"
    /\ tool_output.value.text = "Focus on"
    /\ Len(tool_output.value.parts) = 3
    /\ tool_output.value.parts[1].column = "Embarked"
    /\ tool_output.value.parts[3].column = "Fare"

(***************************************************************************)
(* TrainingService.get_training_status, under Spec.                        *)
(***************************************************************************)
\* C18: for a stored job whose status is queued or running,
\* get_training_status answers from the Celery state of the job's task:
\* PROGRESS gives 'running' with the task's progress, SUCCESS gives
\* 'completed' with progress 100, FAILURE gives 'failed' with the error, any
\* other state gives the stored status; for a job stored as completed, failed
\* or cancelled it answers with the stored status.
C18_StatusFromCelery ==
    [][(result'.op = "get_training_status" /\ Found(training_jobs, result'.id)) =>
          LET job == training_jobs[result'.id]
              stored == [status |-> job.status, progress_pct |-> job.progress_percentage,
                         error |-> FALSE] IN
          /\ result'.exc = "None"
          /\ \E poll \in Polls :
                result'.ret =
                    IF job.status \notin {"queued", "running"} THEN stored
                    ELSE IF poll[1] = "PROGRESS"
                    THEN [status |-> "running", progress_pct |-> poll[2], error |-> FALSE]
                    ELSE IF poll[1] = "SUCCESS"
                    THEN [status |-> "completed", progress_pct |-> 100, error |-> FALSE]
                    ELSE IF poll[1] = "FAILURE"
                    THEN [status |-> "failed", progress_pct |-> 0, error |-> TRUE]
                    ELSE stored]_vars

\* The status of a stored job is asked and the lookup raises TypeError.
C18_LookupRaises ==
    /\ result.op = "get_training_status"
    /\ Found(training_jobs, result.id)
    /\ result.exc = "TypeError"

====
